---------------------------- MODULE Spec2Model ----------------------------
(***************************************************************************)
(* laserscape: layer classification (Layer), layer partitioning            *)
(* (split_layers), the document splitter (split) and the gcode driver      *)
(* (to_gcode), modelled from src/laserscape.py.                            *)
(*                                                                         *)
(* A label is a sequence of one-character strings.  A layer is a record    *)
(* [ID, label]; IDs are unique within a document.                          *)
(***************************************************************************)
EXTENDS Integers, Sequences, FiniteSets, TLC

VARIABLES
    pc,         \* control point of the running operation
    label,      \* SpecLabel: the label being classified
    cls,        \* SpecLabel: what the Layer methods returned for label
    layers,     \* the layers of the source document, in document order
    buckets,    \* <<engrave, cut, ignored>> as returned by split_layers
    arguments,  \* the parsed command line handed to main
    run,        \* number of main invocations started so far
    exc,        \* the exception that ended the run, "none" if none did
    idx,        \* index of the next element of the running for loop
    fs,         \* output directory: path -> content of the file, or NoFile
    writable,   \* whether the output directory accepts writes
    attempts,   \* split: render calls of the current run, in order
    curves,     \* to_gcode: the line chains approximating the parsed curves
    position,   \* to_gcode: interface.position
    body,       \* to_gcode: compiler.body
    powers      \* to_gcode: values passed to set_laser_power, in order

vars == <<pc, label, cls, layers, buckets, arguments, run, exc, idx, fs,
          writable, attempts, curves, position, body, powers>>

----------------------------------------------------------------------------
(* Bounds of the model *)

MaxSuffixLen == 4
MaxLayers == 3
MaxRuns == 2
MaxCurves == 2
MaxChain == 1

----------------------------------------------------------------------------
(* Characters and strings *)

\* F applied to x, with x evaluated once however often F reads it
With(x, F(_)) == CHOOSE r \in {F(v) : v \in {x}} : TRUE

UpperCase == <<"A","B","C","D","E","F","G","H","I","J","K","L","M",
               "N","O","P","Q","R","S","T","U","V","W","X","Y","Z">>
LowerCase == <<"a","b","c","d","e","f","g","h","i","j","k","l","m",
               "n","o","p","q","r","s","t","u","v","w","x","y","z">>
Digits == <<"0","1","2","3","4","5","6","7","8","9">>

IsDigit(c) == \E d \in 1..10 : Digits[d] = c

DigitVal(c) == (CHOOSE d \in 1..10 : Digits[d] = c) - 1

\* str.lower() on one character
lower_char(c) ==
    IF \E k \in 1..26 : UpperCase[k] = c
    THEN LowerCase[CHOOSE k \in 1..26 : UpperCase[k] = c]
    ELSE c

\* str.lower()
lower(s) == [k \in 1..Len(s) |-> lower_char(s[k])]

\* s[i:].startswith(w), 1-based i
startswith_at(s, w, i) ==
    /\ i + Len(w) - 1 <= Len(s)
    /\ SubSeq(s, i, i + Len(w) - 1) = w

\* str.startswith
startswith(s, w) == startswith_at(s, w, 1)

\* int(s) for a non-empty string of decimal digits
RECURSIVE int(_)
int(s) ==
    IF s = <<>> THEN 0
    ELSE int(SubSeq(s, 1, Len(s) - 1)) * 10 + DigitVal(s[Len(s)])

engrave_word == <<"e","n","g","r","a","v","e">>
cut_word == <<"c","u","t">>

----------------------------------------------------------------------------
(* Layer.label_regex and re.search *)

\* last index of the maximal run of digits of s that starts at p (p - 1 if none)
RECURSIVE digits_end(_, _)
digits_end(s, p) ==
    IF p <= Len(s) /\ IsDigit(s[p]) THEN digits_end(s, p + 1) ELSE p - 1

\* an optional group (c\d+)? tried at p: the matched text, <<>> when the
\* group does not participate (Python's None)
opt_group(s, p, c) ==
    IF p + 1 <= Len(s) /\ s[p] = c /\ IsDigit(s[p + 1])
    THEN SubSeq(s, p, digits_end(s, p + 1))
    ELSE <<>>

\* the alternation (engrave|cut) tried at i: the matched word, <<>> if none
role_at(s, i) ==
    IF startswith_at(s, engrave_word, i) THEN engrave_word
    ELSE IF startswith_at(s, cut_word, i) THEN cut_word
    ELSE <<>>

NoMatch == [matched |-> FALSE, priority |-> <<>>, passes |-> <<>>,
            cut_speed |-> <<>>, laser_power |-> <<>>]

\* label_regex.match at position i; every optional group is greedy and
\* nothing follows the groups, so no group is ever given back
match_at(s, i) ==
    LET w  == role_at(s, i)
        p1 == i + Len(w)
        g1 == opt_group(s, p1, "-")
        p2 == p1 + Len(g1)
        g2 == opt_group(s, p2, "x")
        p3 == p2 + Len(g2)
        g3 == opt_group(s, p3, "f")
        p4 == p3 + Len(g3)
        g4 == opt_group(s, p4, "s")
    IN  IF w = <<>> THEN NoMatch
        ELSE [matched |-> TRUE, priority |-> g1, passes |-> g2,
              cut_speed |-> g3, laser_power |-> g4]

\* label_regex.search(s): the match at the leftmost position that has one
label_regex_search(subject) ==
    With(subject, LAMBDA s :
        LET hits == {i \in 1..Len(s) : role_at(s, i) # <<>>}
        IN  IF hits = {} THEN NoMatch
            ELSE match_at(s, CHOOSE i \in hits : \A j \in hits : i <= j))

----------------------------------------------------------------------------
(* class Layer *)

\* A value or the exception a call ended with.  inf marks float("inf").
Value(n) == [exc |-> "none", inf |-> FALSE, val |-> n]
Inf == [exc |-> "none", inf |-> TRUE, val |-> 0]
Raised(e) == [exc |-> e, inf |-> FALSE, val |-> 0]

is_engrave_layer(l) ==
    With(lower(l), LAMBDA s : startswith(s, engrave_word))

\* is_cut_layer with the lower-casing forgotten
is_cut_layer_case_sensitive(l) == startswith(l, cut_word)

is_cut_layer(l) ==
    With(lower(l), LAMBDA s : startswith(s, cut_word))

\* label_regex searched in the label as written
search_subject_as_written(l) == l

\* the text label_regex is searched in: self.label.lower()
search_subject(l) == lower(l)

\* m[1:] of a matched group
group_digits(m) == SubSeq(m, 2, Len(m))

_parse_priority(l) ==
    With(label_regex_search(search_subject(l)), LAMBDA matches :
        IF ~matches.matched THEN Raised("AttributeError")
        ELSE IF matches.priority = <<>> THEN Raised("ValueError")
        ELSE Value(int(group_digits(matches.priority))))

priority(l) ==
    With(_parse_priority(l), LAMBDA r :
        IF r.exc = "ValueError" THEN Inf ELSE r)

\* _parse_passes reading the group _parse_priority reads
_parse_passes_priority_group(l) == _parse_priority(l)

_parse_passes(l) ==
    With(label_regex_search(search_subject(l)), LAMBDA matches :
        IF ~matches.matched THEN Raised("AttributeError")
        ELSE IF matches.passes = <<>> THEN Raised("ValueError")
        ELSE Value(int(group_digits(matches.passes))))

passes(l) ==
    With(_parse_passes(l), LAMBDA r :
        IF r.exc = "ValueError" THEN Value(1) ELSE r)

\* comparison of two priorities: int < int, int < inf, never inf < anything
priority_less(p0, q0) ==
    With(<<p0, q0>>, LAMBDA v :
        LET p == v[1]
            q == v[2]
        IN  IF p.inf THEN FALSE ELSE IF q.inf THEN TRUE ELSE p.val < q.val)

\* __lt__ written with <= : equal priorities compare as smaller
__lt__or_equal(a, b) == ~priority_less(priority(b.label), priority(a.label))

\* Layer.__lt__ (both operands are Layers, so never NotImplemented)
__lt__(a, b) == priority_less(priority(a.label), priority(b.label))

----------------------------------------------------------------------------
(* list.sort() as CPython runs it on a list shorter than 64 elements: the  *)
(* initial run is found (a strictly descending one is reversed), then each *)
(* further element is placed by binary insertion.  Only __lt__ is used.    *)

\* length of the run that starts a, given its first n elements are in it
RECURSIVE run_end(_, _, _)
run_end(a, n, descending) ==
    IF n < Len(a) /\ (__lt__(a[n + 1], a[n]) <=> descending)
    THEN run_end(a, n + 1, descending)
    ELSE n

reverse(a) == [k \in 1..Len(a) |-> a[Len(a) + 1 - k]]

\* offset at which pivot goes into the sorted a[1..r]: after every element
\* it is not smaller than (l, r are 0-based offsets, l <= r)
RECURSIVE bisect(_, _, _, _)
bisect(a, pivot, l, r) ==
    IF l < r
    THEN LET p == l + ((r - l) \div 2)
         IN  IF __lt__(pivot, a[p + 1])
             THEN bisect(a, pivot, l, p)
             ELSE bisect(a, pivot, p + 1, r)
    ELSE l

\* a[1..start] is sorted; sorts the rest of a into it
RECURSIVE binarysort(_, _)
binarysort(list, start) ==
    With(list, LAMBDA a :
        IF start >= Len(a) THEN a
        ELSE With(bisect(a, a[start + 1], 0, start), LAMBDA at :
                binarysort(SubSeq(a, 1, at) \o <<a[start + 1]>>
                               \o SubSeq(a, at + 1, start)
                               \o SubSeq(a, start + 2, Len(a)),
                           start + 1)))

sort(list) ==
    With(list, LAMBDA a :
        IF Len(a) < 2 THEN a
        ELSE With(__lt__(a[2], a[1]), LAMBDA descending :
                With(run_end(a, 2, descending), LAMBDA n :
                    binarysort(IF descending
                               THEN reverse(SubSeq(a, 1, n))
                                        \o SubSeq(a, n + 1, Len(a))
                               ELSE a,
                               n))))

----------------------------------------------------------------------------
(* split_layers *)

\* split_layers with "if engrave" in place of "elif engrave": a cut layer
\* falls through to the else branch as well
split_layers_if_for_elif(ls) ==
    LET cut == SelectSeq(ls, LAMBDA y : is_cut_layer(y.label))
        engrave == SelectSeq(ls, LAMBDA y : is_engrave_layer(y.label))
        ignored == SelectSeq(ls, LAMBDA y : ~is_engrave_layer(y.label))
    IN  <<sort(engrave), sort(cut), ignored>>

\* returns <<engrave_layers, cut_layers, ignored_layers>>
split_layers(ls) ==
    LET cut == SelectSeq(ls, LAMBDA y : is_cut_layer(y.label))
        engrave == SelectSeq(ls, LAMBDA y : ~is_cut_layer(y.label)
                                            /\ is_engrave_layer(y.label))
        ignored == SelectSeq(ls, LAMBDA y : ~is_cut_layer(y.label)
                                            /\ ~is_engrave_layer(y.label))
    IN  <<sort(engrave), sort(cut), ignored>>

----------------------------------------------------------------------------
(* Inputs *)

\* all sequences over S of length at most n
SeqsUpTo(S, n) == UNION {[1..m -> S] : m \in 0..n}

\* how a label may begin: the role words in several spellings, and near misses
Words == { <<"c","u","t">>, <<"C","u","T">>,
           <<"e","n","g","r","a","v","e">>, <<"e","n","G","r","A","v","e">>,
           <<"E","N","G","R","A","V","E">>,
           <<>>, <<"a","c","u","t">>, <<"e","n","g","r","a","v">> }

\* what may follow: field letters, digits and the priority dash
SuffixChars == {"-", "x", "f", "0", "7"}

Labels == {w \o t : w \in Words, t \in SeqsUpTo(SuffixChars, MaxSuffixLen)}

\* labels of the layers of a document
DocLabels == { <<"c","u","t">>, <<"c","u","t","-","2">>, <<"C","U","T","-","2">>,
               <<"c","u","t","-","1","x","3">>,
               <<"e","n","g","r","a","v","e">>, <<"E","n","g","r","a","v","e","-","7">>,
               <<"b","g">> }

\* a document: layer k has ID k and any of the labels
Documents ==
    {[k \in 1..n |-> [ID |-> k, label |-> f[k]]] :
        n \in 0..MaxLayers, f \in [1..MaxLayers -> DocLabels]}

----------------------------------------------------------------------------
(* State the operations below do not touch *)

NoCls == [is_engrave |-> FALSE, is_cut |-> FALSE, priority |-> Inf,
          passes |-> Inf, bucket |-> "none"]
NoBuckets == <<<<>>, <<>>, <<>>>>
None == -1
NoArguments == [command |-> "none", overwrite |-> FALSE]

IdleLabel == label = <<>> /\ cls = NoCls
IdleMain ==
    /\ arguments = NoArguments /\ run = 0 /\ exc = "none" /\ idx = 0
    /\ fs = <<>> /\ writable = TRUE /\ attempts = <<>>
IdleGcode == curves = <<>> /\ position = None /\ body = <<>> /\ powers = <<>>

----------------------------------------------------------------------------
(* SpecLabel: the Layer methods applied to one label *)

\* the bucket split_layers puts the only layer of a document in
bucket_of(l) ==
    With(split_layers(<<[ID |-> 1, label |-> l]>>), LAMBDA r :
        IF Len(r[1]) = 1 /\ Len(r[2]) = 0 /\ Len(r[3]) = 0 THEN "engrave"
        ELSE IF Len(r[1]) = 0 /\ Len(r[2]) = 1 /\ Len(r[3]) = 0 THEN "cut"
        ELSE IF Len(r[1]) = 0 /\ Len(r[2]) = 0 /\ Len(r[3]) = 1 THEN "ignored"
        ELSE "none")

InitLabel ==
    /\ pc = "classify"
    /\ label \in Labels
    /\ cls = NoCls
    /\ layers = <<>> /\ buckets = NoBuckets
    /\ IdleMain /\ IdleGcode

Classify ==
    /\ pc = "classify"
    /\ cls' = [is_engrave |-> is_engrave_layer(label),
               is_cut |-> is_cut_layer(label),
               priority |-> priority(label),
               passes |-> passes(label),
               bucket |-> bucket_of(label)]
    /\ pc' = "classified"
    /\ UNCHANGED <<label, layers, buckets, arguments, run, exc, idx, fs,
                   writable, attempts, curves, position, body, powers>>

NextLabel == Classify

SpecLabel == InitLabel /\ [][NextLabel]_vars

----------------------------------------------------------------------------
(* SpecPartition: split_layers applied to one document *)

InitPartition ==
    /\ pc = "partition"
    /\ layers \in Documents
    /\ buckets = NoBuckets
    /\ IdleLabel /\ IdleMain /\ IdleGcode

Partition ==
    /\ pc = "partition"
    /\ buckets' = split_layers(layers)
    /\ pc' = "partitioned"
    /\ UNCHANGED <<label, cls, layers, arguments, run, exc, idx, fs,
                   writable, attempts, curves, position, body, powers>>

NextPartition == Partition

SpecPartition == InitPartition /\ [][NextPartition]_vars

----------------------------------------------------------------------------
(* split: the document splitter *)

\* inkscape_file_path.stem of the source document
base_name == <<"d">>

svg_suffix == <<".","s","v","g">>

\* the output path built from the lower-cased label
output_path_lower(l) == base_name \o <<"-">> \o lower(l) \o svg_suffix

\* output_directory/(base_name+"-"+layer.label+".svg"), within the directory
output_path(l) == base_name \o <<"-">> \o l \o svg_suffix

Paths == {output_path(l) : l \in DocLabels}

\* copy_with_only_this_layer deleting the layer it was asked to keep
copy_without_this_layer(canvas, layer) ==
    SelectSeq(canvas, LAMBDA y : y.ID # layer.ID)

\* the deep copy of the canvas with every layer of another ID deleted
copy_with_only_this_layer(canvas, layer) ==
    SelectSeq(canvas, LAMBDA y : y.ID = layer.ID)

NoFile == [exists |-> FALSE, content |-> <<>>, written |-> 0]

\* Canvas.render(path, overwrite): how the call ends.  It refuses an
\* existing path unless overwrite is set; opening a file for writing in a
\* directory that does not accept writes raises OSError.
render_outcome(files, path, overwrite, can_write) ==
    IF ~overwrite /\ files[path].exists THEN "FileExistsError"
    ELSE IF ~can_write THEN "OSError"
    ELSE "ok"

\* the files after a render call that ended as outcome
render_files(files, path, content, outcome, stamp) ==
    IF outcome = "ok"
    THEN [files EXCEPT ![path] = [exists |-> TRUE, content |-> content,
                                  written |-> stamp]]
    ELSE files

\* main forgetting to hand --overwrite on: split's default applies
overwrite_default(args) == FALSE

\* the overwrite argument main gives split, which split gives every render
overwrite_argument(args) == args.overwrite

\* a for loop of split that catches the failure of render and goes on
SplitIterationCatching(ls) ==
    /\ idx <= Len(ls)
    /\ LET layer == ls[idx]
           c == copy_with_only_this_layer(layers, layer)
           path == output_path(layer.label)
           outcome == render_outcome(fs, path, overwrite_argument(arguments),
                                     writable)
       IN  /\ attempts' = Append(attempts,
                                 [ID |-> layer.ID, path |-> path,
                                  content |-> c, outcome |-> outcome])
           /\ fs' = render_files(fs, path, c, outcome, run)
           /\ idx' = idx + 1
           /\ UNCHANGED <<pc, exc>>
    /\ UNCHANGED <<label, cls, layers, buckets, arguments, run, writable,
                   curves, position, body, powers>>

\* one pass of the body of a for loop of split over the layers ls
SplitIteration(ls) ==
    /\ idx <= Len(ls)
    /\ LET layer == ls[idx]
           c == copy_with_only_this_layer(layers, layer)
           path == output_path(layer.label)
           outcome == render_outcome(fs, path, overwrite_argument(arguments),
                                     writable)
       IN  /\ attempts' = Append(attempts,
                                 [ID |-> layer.ID, path |-> path,
                                  content |-> c, outcome |-> outcome])
           /\ fs' = render_files(fs, path, c, outcome, run)
           /\ IF outcome = "ok"
              THEN /\ idx' = idx + 1
                   /\ UNCHANGED <<pc, exc>>
              ELSE /\ pc' = "raised"
                   /\ exc' = outcome
                   /\ UNCHANGED idx
    /\ UNCHANGED <<label, cls, layers, buckets, arguments, run, writable,
                   curves, position, body, powers>>

\* a for loop of split has run out of layers
SplitLoopEnd(ls, next_pc) ==
    /\ idx > Len(ls)
    /\ pc' = next_pc
    /\ idx' = 1
    /\ UNCHANGED <<label, cls, layers, buckets, arguments, run, exc, fs,
                   writable, attempts, curves, position, body, powers>>

\* split up to its first loop: the layers are read and partitioned
split_begin ==
    /\ pc = "split"
    /\ buckets' = split_layers(layers)
    /\ pc' = "engrave_loop"
    /\ idx' = 1
    /\ UNCHANGED <<label, cls, layers, arguments, run, exc, fs, writable,
                   attempts, curves, position, body, powers>>

split_engrave == pc = "engrave_loop" /\ SplitIteration(buckets[1])

split_engrave_end == pc = "engrave_loop" /\ SplitLoopEnd(buckets[1], "cut_loop")

split_cut == pc = "cut_loop" /\ SplitIteration(buckets[2])

\* after the cut loop the ignored layers are printed and split returns
split_cut_end == pc = "cut_loop" /\ SplitLoopEnd(buckets[2], "done")

----------------------------------------------------------------------------
(* to_gcode: the gcode driver and the patched Compiler methods *)

\* the power to_gcode asks append_curves for
laser_power == 5

Coords == {0, 1}

\* what line_segment_approximation yields for a curve: a line chain, here
\* its start and the ends of its lines; the empty chain has no lines
Chains ==
    {[start |-> 0, ends |-> <<>>]} \cup
    {[start |-> a, ends |-> e] :
        a \in Coords, e \in SeqsUpTo(Coords, MaxChain) \ {<<>>}}

CurveInputs == SeqsUpTo(Chains, MaxCurves)

chain_size(chain) == Len(chain.ends)

\* patched_set_laser_power: the exception it raises, "none" if it returns
set_laser_power_exc(power) ==
    IF power < 0 \/ power > 1 THEN "ValueError" ELSE "none"

\* patched_set_laser_power: the instruction it returns, S = floor(255 * power)
set_laser_power(power) == <<"M3 S", 255 * power>>

\* patched_append_line_chain(line_chain, power): the exception that ends it,
\* the body, the position and the powers passed on
append_line_chain(chain, power) ==
    IF chain_size(chain) = 0
    THEN \* warnings.warn, and the module never imports warnings
         [exc |-> "NameError", body |-> body, position |-> position,
          powers |-> powers]
    ELSE LET moves == [k \in 1..chain_size(chain) |-> <<"G1", chain.ends[k]>>]
             last == chain.ends[chain_size(chain)]
         IN  IF position = None \/ position # chain.start
             THEN IF set_laser_power_exc(power) # "none"
                  THEN \* raised while the list of instructions is built:
                       \* linear_move to the start has already been asked for
                       [exc |-> set_laser_power_exc(power), body |-> body,
                        position |-> chain.start,
                        powers |-> Append(powers, power)]
                  ELSE [exc |-> "none",
                        body |-> body \o <<<<"M5", 0>>, <<"G1", chain.start>>,
                                            set_laser_power(power)>> \o moves,
                        position |-> last,
                        powers |-> Append(powers, power)]
             ELSE [exc |-> "none", body |-> body \o moves, position |-> last,
                   powers |-> powers]

\* to_gcode up to append_curves: the compiler is built, the file parsed
to_gcode_begin ==
    /\ pc = "to_gcode"
    /\ position' = None
    /\ body' = <<>>
    /\ powers' = <<>>
    /\ idx' = 1
    /\ pc' = "append_curves"
    /\ UNCHANGED <<label, cls, layers, buckets, arguments, run, exc, fs,
                   writable, attempts, curves>>

\* one pass of the loop of patched_append_curves
append_curve ==
    /\ pc = "append_curves"
    /\ idx <= Len(curves)
    /\ LET r == append_line_chain(curves[idx], laser_power)
       IN  /\ body' = r.body
           /\ position' = r.position
           /\ powers' = r.powers
           /\ IF r.exc = "none"
              THEN idx' = idx + 1 /\ UNCHANGED <<pc, exc>>
              ELSE pc' = "raised" /\ exc' = r.exc /\ UNCHANGED idx
    /\ UNCHANGED <<label, cls, layers, buckets, arguments, run, fs, writable,
                   attempts, curves>>

\* gcode_compiler.compile_to_file("drawing.gcode", passes=2)
compile_to_file ==
    /\ pc = "append_curves"
    /\ idx > Len(curves)
    /\ pc' = "compiled"
    /\ UNCHANGED <<label, cls, layers, buckets, arguments, run, exc, idx, fs,
                   writable, attempts, curves, position, body, powers>>

----------------------------------------------------------------------------
(* main, and the program being run again on the same source *)

main ==
    /\ pc = "main"
    /\ pc' = IF arguments.command = "split" THEN "split"
             ELSE IF arguments.command = "to-gcode" THEN "to_gcode"
             ELSE "done"
    /\ UNCHANGED <<label, cls, layers, buckets, arguments, run, exc, idx, fs,
                   writable, attempts, curves, position, body, powers>>

\* laserscape split is invoked again on the unchanged source document: a
\* new process, which inherits the files and nothing else
run_again ==
    /\ pc \in {"done", "raised"}
    /\ arguments.command = "split"
    /\ run < MaxRuns
    /\ run' = run + 1
    /\ \E o \in BOOLEAN : arguments' = [arguments EXCEPT !.overwrite = o]
    /\ pc' = "main"
    /\ exc' = "none"
    /\ idx' = 0
    /\ buckets' = NoBuckets
    /\ attempts' = <<>>
    /\ UNCHANGED <<label, cls, layers, fs, writable, curves, position, body,
                   powers>>

Init ==
    /\ pc = "main"
    /\ run = 1
    /\ exc = "none"
    /\ idx = 0
    /\ buckets = NoBuckets
    /\ attempts = <<>>
    /\ fs = [p \in Paths |-> NoFile]
    /\ IdleLabel
    /\ position = None /\ body = <<>> /\ powers = <<>>
    /\ \/ /\ arguments \in [command : {"split"}, overwrite : BOOLEAN]
          /\ layers \in Documents
          /\ writable \in BOOLEAN
          /\ curves = <<>>
       \/ /\ arguments = [command |-> "to-gcode", overwrite |-> FALSE]
          /\ layers = <<>>
          /\ writable = TRUE
          /\ curves \in CurveInputs

Next ==
    \/ main
    \/ split_begin
    \/ split_engrave
    \/ split_engrave_end
    \/ split_cut
    \/ split_cut_end
    \/ to_gcode_begin
    \/ append_curve
    \/ compile_to_file
    \/ run_again

Spec == Init /\ [][Next]_vars

----------------------------------------------------------------------------
(* Claims about the Layer methods (SpecLabel) *)

\* l, compared without regard to case, begins with the lower-case word w
HasPrefixCI(l, w) ==
    /\ Len(l) >= Len(w)
    /\ \A k \in 1..Len(w) : lower_char(l[k]) = w[k]

\* position of the first character after the role word of l
AfterRole(l) ==
    IF HasPrefixCI(l, engrave_word) THEN Len(engrave_word) + 1
    ELSE Len(cut_word) + 1

\* number of consecutive digits of l from position p on
DigitRun(l, p) ==
    CHOOSE n \in 0..Len(l) :
        /\ \A k \in p..(p + n - 1) : k <= Len(l) /\ IsDigit(l[k])
        /\ (p + n > Len(l) \/ ~IsDigit(l[p + n]))

\* length of the field "c<digits>" of l at position p, 0 if there is none
FieldLen(l, p, c) ==
    IF p <= Len(l) /\ l[p] = c /\ DigitRun(l, p + 1) >= 1
    THEN 1 + DigitRun(l, p + 1)
    ELSE 0

RECURSIVE Pow10(_)
Pow10(n) == IF n = 0 THEN 1 ELSE 10 * Pow10(n - 1)

\* the number written in decimal by the digits l[p..q]
RECURSIVE Decimal(_, _, _)
Decimal(l, p, q) ==
    IF p > q THEN 0
    ELSE DigitVal(l[p]) * Pow10(q - p) + Decimal(l, p + 1, q)

\* the number of the field "c<digits>" of l at position p
FieldVal(l, p, c) == Decimal(l, p + 1, p + FieldLen(l, p, c) - 1)

\* C1: a layer is Engrave iff its lower-cased label starts with "engrave",
\* Cut iff it starts with "cut", Ignored otherwise; the roles exclude each
\* other and split_layers puts the layer in the bucket of its role.
C1_RoleIsPrefixTest ==
    pc = "classified" =>
        LET eng == HasPrefixCI(label, engrave_word)
            ct == HasPrefixCI(label, cut_word)
        IN  /\ cls.is_engrave = eng
            /\ cls.is_cut = ct
            /\ ~(cls.is_engrave /\ cls.is_cut)
            /\ cls.bucket = IF eng THEN "engrave"
                            ELSE IF ct THEN "cut" ELSE "ignored"

\* a mixed-case cut label with fields after it has been routed
C1_Witness ==
    /\ pc = "classified"
    /\ label = <<"C","u","T","-","7">>
    /\ cls.is_cut /\ cls.bucket = "cut"

\* C2: for a label starting with "engrave" or "cut" (any case), priority is
\* the number of the "-<digits>" field right after the role word, +infinity
\* when no such field is there, and no exception is raised.
C2_PriorityField ==
    (pc = "classified"
        /\ (HasPrefixCI(label, engrave_word) \/ HasPrefixCI(label, cut_word))) =>
        LET p == AfterRole(label)
        IN  cls.priority =
                IF FieldLen(label, p, "-") > 0
                THEN Value(FieldVal(label, p, "-"))
                ELSE Inf

\* a priority of two digits was read, and so was a default behind a passes field
C2_Witness ==
    /\ pc = "classified"
    /\ label = <<"e","n","G","r","A","v","e","-","7","0","x">>
    /\ cls.priority = Value(70)

\* C3: for a label starting with "engrave" or "cut" (any case), passes is
\* the number of the "x<digits>" field that follows the role word and the
\* priority field if there is one, and 1 when no such field is there.
C3_PassesField ==
    (pc = "classified"
        /\ (HasPrefixCI(label, engrave_word) \/ HasPrefixCI(label, cut_word))) =>
        LET p == AfterRole(label)
            q == p + FieldLen(label, p, "-")
        IN  cls.passes =
                IF FieldLen(label, q, "x") > 0
                THEN Value(FieldVal(label, q, "x"))
                ELSE Value(1)

\* passes were read behind a priority field
C3_Witness ==
    /\ pc = "classified"
    /\ label = <<"c","u","t","-","0","x","7">>
    /\ cls.passes = Value(7)

----------------------------------------------------------------------------
(* Claims about split_layers (SpecPartition) *)

\* the places <<bucket, index>> of the result that hold layer x
PlacesOf(x) ==
    {<<b, k>> \in (1..3) \X (1..Len(layers)) :
        k <= Len(buckets[b]) /\ buckets[b][k] = x}

\* C4: the three sequences split_layers returns partition its input: their
\* lengths sum to the input's and every input layer is at exactly one place.
C4_SetPartition ==
    pc = "partitioned" =>
        /\ Len(buckets[1]) + Len(buckets[2]) + Len(buckets[3]) = Len(layers)
        /\ \A i \in 1..Len(layers) : Cardinality(PlacesOf(layers[i])) = 1

\* a document with a layer in each bucket has been partitioned
C4_Witness ==
    /\ pc = "partitioned"
    /\ Len(buckets[1]) > 0 /\ Len(buckets[2]) > 0 /\ Len(buckets[3]) > 0

\* C5: within the engrave and the cut sequence a layer of smaller priority
\* precedes one of greater priority, and layers of equal priority keep the
\* order they have in the document.
C5_SortedAndStable ==
    pc = "partitioned" =>
        \A b \in 1..2 : \A j, k \in 1..Len(buckets[b]) :
            LET pj == priority(buckets[b][j].label)
                pk == priority(buckets[b][k].label)
            IN  /\ priority_less(pj, pk) => j < k
                /\ (pj = pk /\ buckets[b][j].ID < buckets[b][k].ID) => j < k

\* the cut layers were reordered and two of equal priority are among them
C5_Witness ==
    /\ pc = "partitioned"
    /\ Len(buckets[2]) = 3
    /\ buckets[2][1].ID > buckets[2][2].ID
    /\ priority(buckets[2][2].label) = priority(buckets[2][3].label)
    /\ buckets[2][2].label # buckets[2][3].label

----------------------------------------------------------------------------
(* Claims about split and to_gcode (Spec) *)

IsEngrave(l) == HasPrefixCI(l, engrave_word)
IsCut(l) == HasPrefixCI(l, cut_word)

\* the layers of the document that are not ignored
NonIgnored == {i \in 1..Len(layers) : IsEngrave(layers[i].label) \/ IsCut(layers[i].label)}

\* the layer of the document with identifier id
LayerOf(id) == layers[CHOOSE i \in 1..Len(layers) : layers[i].ID = id]

\* "{stem}-{label}.svg"
NamedAfter(l) == <<"d", "-">> \o l \o <<".", "s", "v", "g">>

\* the files of the output directory written by the current run
WrittenNow == {p \in Paths : fs[p].exists /\ fs[p].written = run}

SplitDone == arguments.command = "split" /\ pc = "done"

\* every layer that is not ignored was written once, under its name, as a
\* copy holding only that layer, engrave layers before cut layers
OneWritePerLayer ==
    /\ Len(attempts) = Cardinality(NonIgnored)
    /\ {attempts[k].ID : k \in 1..Len(attempts)} = {layers[i].ID : i \in NonIgnored}
    /\ \A k \in 1..Len(attempts) :
        /\ attempts[k].outcome = "ok"
        /\ attempts[k].path = NamedAfter(LayerOf(attempts[k].ID).label)
        /\ attempts[k].content = <<LayerOf(attempts[k].ID)>>
    /\ \A j, k \in 1..Len(attempts) :
        (IsEngrave(LayerOf(attempts[j].ID).label)
            /\ IsCut(LayerOf(attempts[k].ID).label)) => j < k

\* C6 as stated: a split run whose writes all succeed leaves one file per
\* layer that is not ignored (N files for N such layers), each named
\* {stem}-{label}.svg and holding only the layer it is named after,
\* engrave layers written before cut layers.
C6_OneFilePerLayer ==
    SplitDone =>
        /\ OneWritePerLayer
        /\ Cardinality(WrittenNow) = Cardinality(NonIgnored)
        /\ \A i \in NonIgnored :
            fs[NamedAfter(layers[i].label)].content = <<layers[i]>>

\* C6 amended: a split run whose writes all succeed makes exactly one write
\* per layer that is not ignored and none for an ignored layer, each to
\* {stem}-{label}.svg with a copy holding only that layer, engrave layers
\* before cut layers; it leaves one file per distinct label of those layers
\* (N files when the N labels differ), holding the layer written last under
\* that label.
C6_OneWritePerLayer ==
    SplitDone =>
        /\ OneWritePerLayer
        /\ WrittenNow = {NamedAfter(layers[i].label) : i \in NonIgnored}
        /\ \A p \in WrittenNow :
            LET last == CHOOSE k \in 1..Len(attempts) :
                            /\ attempts[k].path = p
                            /\ \A j \in 1..Len(attempts) :
                                attempts[j].path = p => j <= k
            IN  fs[p].content = attempts[last].content

\* a run over an engrave, a cut and an ignored layer has completed
C6_Witness ==
    /\ SplitDone
    /\ Len(layers) = 3 /\ Len(attempts) = 2
    /\ \E i \in NonIgnored : IsEngrave(layers[i].label)
    /\ \E i \in NonIgnored : IsCut(layers[i].label)

SplitEnded == arguments.command = "split" /\ pc \in {"done", "raised"}

\* C7 as stated: a failed write does not abort the run, a write is still
\* attempted for every layer that is not ignored.
C7_FailureDoesNotAbort ==
    SplitEnded => Len(attempts) = Cardinality(NonIgnored)

\* C7 amended: a failed write aborts the run.  The exception of the failed
\* render leaves split, no write is attempted for any layer after the
\* failing one, and the files written before it stay.
C7_FailureAborts ==
    arguments.command = "split" =>
        \A k \in 1..Len(attempts) :
            /\ attempts[k].outcome # "ok" =>
                /\ k = Len(attempts)
                /\ pc = "raised"
                /\ exc = attempts[k].outcome
                /\ ~ENABLED (split_engrave \/ split_engrave_end
                                \/ split_cut \/ split_cut_end)
            /\ attempts[k].outcome = "ok" =>
                fs[attempts[k].path].exists /\ fs[attempts[k].path].written = run

\* a run over three layers was aborted by the failure of its second write
C7_Witness ==
    /\ arguments.command = "split" /\ pc = "raised"
    /\ Cardinality(NonIgnored) = 3
    /\ Len(attempts) = 2
    /\ attempts[1].outcome = "ok" /\ attempts[2].outcome = "FileExistsError"

\* C8: when split runs again on the unchanged source, a write without
\* overwrite to a destination that exists fails with an exception and leaves
\* the file as it was; a write with overwrite succeeds and replaces the file.
C8_OverwriteSemantics ==
    [][(run >= 2 /\ Len(attempts') = Len(attempts) + 1) =>
        LET a == attempts'[Len(attempts')]
        IN  /\ (~arguments.overwrite /\ fs[a.path].exists) =>
                /\ a.outcome = "FileExistsError"
                /\ pc' = "raised" /\ exc' = "FileExistsError"
                /\ fs' = fs
            /\ (arguments.overwrite /\ writable) =>
                /\ a.outcome = "ok"
                /\ pc' # "raised"
                /\ fs'[a.path] = [exists |-> TRUE, content |-> a.content,
                                  written |-> run]
                /\ \A p \in Paths \ {a.path} : fs'[p] = fs[p]]_vars

\* the second run, without overwrite, failed on a file of the first run
C8_Witness ==
    /\ run = 2 /\ pc = "raised" /\ exc = "FileExistsError"
    /\ ~arguments.overwrite
    /\ Len(attempts) = 1
    /\ fs[attempts[1].path].written = 1
    /\ fs[attempts[1].path].content = attempts[1].content

\* C9 as stated: within one run the output paths of two distinct layers
\* differ, so no write of the run meets the file of another layer.
C9_PathsDistinct ==
    arguments.command = "split" =>
        \A j, k \in 1..Len(attempts) :
            j # k => attempts[j].path # attempts[k].path

\* C9 amended: within one run the output paths of two layers that are not
\* ignored differ exactly when their labels differ.  Layers sharing a label
\* share a path, and a later write that succeeds replaces the file of the
\* earlier layer.
C9_PathsDistinctIffLabels ==
    arguments.command = "split" =>
        /\ \A i, j \in NonIgnored :
            (output_path(layers[i].label) = output_path(layers[j].label))
                <=> (layers[i].label = layers[j].label)
        /\ \A j, k \in 1..Len(attempts) :
            (j < k /\ LayerOf(attempts[j].ID).label = LayerOf(attempts[k].ID).label) =>
                /\ attempts[j].path = attempts[k].path
                /\ attempts[k].outcome = "ok" =>
                       fs[attempts[j].path].content # attempts[j].content

\* with overwrite, the file of one layer was replaced by that of another
C9_Witness ==
    /\ arguments.command = "split" /\ run = 1
    /\ Len(attempts) = 2
    /\ attempts[1].path = attempts[2].path
    /\ attempts[1].ID # attempts[2].ID
    /\ attempts[2].outcome = "ok"
    /\ fs[attempts[2].path].content = attempts[2].content

\* C10: every power to_gcode passes to set_laser_power lies in [0, 1], and a
\* run over an input with a non-empty curve raises nothing and reaches
\* compile_to_file.
C10_PowerInRange ==
    arguments.command = "to-gcode" =>
        /\ \A k \in 1..Len(powers) : 0 <= powers[k] /\ powers[k] <= 1
        /\ (\E k \in 1..Len(curves) : chain_size(curves[k]) > 0) =>
               (pc # "raised" /\ exc # "ValueError")

============================================================================
